---- MODULE Spec2Model ----
(***************************************************************************)
(* The verification gate of TruthSeeker:                                   *)
(* src/src/agents/verification/agent.py, class VerificationAgent.          *)
(*                                                                         *)
(* One behaviour of Spec is one call of VerificationAgent.execute: the     *)
(* four independent checks are started by asyncio.gather, finish in any    *)
(* order, are joined, and then the tests check and the patterns check run  *)
(* one after the other when the syntax outcome passed.  The external       *)
(* tools (py_compile, mypy, ruff, bandit, pytest) and the pattern reviewer *)
(* are the environment: what a tool does is chosen when its invocation     *)
(* completes.                                                              *)
(*                                                                         *)
(* Text is a sequence of string tokens; "a" + "b" is <<"a">> \o <<"b">>.   *)
(***************************************************************************)
EXTENDS Integers, Sequences, FiniteSets, TLC

(***************************************************************************)
(* Bounds of the model.                                                    *)
(***************************************************************************)
\* longest files_modified list of a TaskResult
MaxFiles == 1
\* what a perf_counter difference reads, in ms: the code records the times it
\* measures and never branches on them, so one value stands for all of them
Elapsed == 1
\* largest number of HIGH findings in a bandit report
MaxFindings == 1
\* longest list of files a direct call of _run_tests is given
MaxTestFiles == 2
\* longest list of files a call of verify_quick is given
MaxSyntaxFiles == 2

(***************************************************************************)
(* Program constants: the duration_ms recorded for a timeout.              *)
(***************************************************************************)
SyntaxTimeoutMs == 30000
TypesTimeoutMs == 120000
LintTimeoutMs == 60000
SecurityTimeoutMs == 60000
TestsTimeoutMs == 180000

(***************************************************************************)
(* The project tree the gate looks at.  A path is a string; what the code  *)
(* asks of a path (endswith, startswith, exists, the four candidate test   *)
(* locations) is tabulated for the paths of this tree.                     *)
(***************************************************************************)
Paths == {"README.md", "src/gone.py", "src/a.py", "src/b.py"}

\* the files a direct call of _run_tests is given
TestPaths == {"README.md", "src/a.py", "src/b.py", "pkg/c.py", "pkg/d.py", "lib/m.py",
              "tests/test_b.py", "pkg/test_c.py", "test_e.py"}

\* f.endswith(".py")
EndsWithPy(f) == f \in {"src/gone.py", "src/a.py", "src/b.py",
                        "tests/test_b.py", "src/test_a.py",
                        "pkg/c.py", "pkg/d.py", "lib/m.py", "pkg/test_c.py", "test_e.py"}

\* f.startswith("test_")
StartsWithTest(f) == f \in {"test_e.py"}

\* Path(f).name.startswith("test_")
NameStartsWithTest(f) == f \in {"tests/test_b.py", "pkg/test_c.py", "test_e.py"}

\* (self.project_root / f).exists()
Exists(f) == f \in {"README.md", "src/a.py", "src/b.py", "tests/test_b.py",
                    "pkg/c.py", "pkg/d.py", "lib/m.py", "test_e.py",
                    "pkg/test_c.py", "tests/test_c.py", "pkg/tests/test_d.py",
                    "tests/lib/test_m.py", "tests/test_m.py", "pkg/test_test_c.py"}

\* the four candidate locations of _run_tests, in the order of `patterns`
TestCandidates(f) ==
    CASE f = "src/a.py" ->
           <<"src/test_a.py", "tests/src/test_a.py", "tests/test_a.py", "src/tests/test_a.py">>
      [] f = "src/b.py" ->
           <<"src/test_b.py", "tests/src/test_b.py", "tests/test_b.py", "src/tests/test_b.py">>
      [] f = "src/gone.py" ->
           <<"src/test_gone.py", "tests/src/test_gone.py", "tests/test_gone.py", "src/tests/test_gone.py">>
      [] f = "pkg/c.py" ->
           <<"pkg/test_c.py", "tests/pkg/test_c.py", "tests/test_c.py", "pkg/tests/test_c.py">>
      [] f = "pkg/d.py" ->
           <<"pkg/test_d.py", "tests/pkg/test_d.py", "tests/test_d.py", "pkg/tests/test_d.py">>
      [] f = "lib/m.py" ->
           <<"lib/test_m.py", "tests/lib/test_m.py", "tests/test_m.py", "lib/tests/test_m.py">>
      [] f = "tests/test_b.py" ->
           <<"tests/test_test_b.py", "tests/tests/test_test_b.py",
             "tests/test_test_b.py", "tests/tests/test_test_b.py">>
      [] f = "pkg/test_c.py" ->
           <<"pkg/test_test_c.py", "tests/pkg/test_test_c.py",
             "tests/test_test_c.py", "pkg/tests/test_test_c.py">>
      [] f = "test_e.py" ->
           <<"test_test_e.py", "tests/test_test_e.py", "tests/test_test_e.py",
             "tests/test_test_e.py">>
      [] OTHER -> <<>>

(***************************************************************************)
(* Python helpers.                                                         *)
(***************************************************************************)
\* sep.join(parts), every part a text
RECURSIVE JoinText(_, _)
JoinText(parts, sep) ==
    IF parts = <<>> THEN <<>>
    ELSE IF Len(parts) = 1 THEN Head(parts)
    ELSE Head(parts) \o sep \o JoinText(Tail(parts), sep)

\* tok in text
Contains(text, tok) == \E i \in 1..Len(text) : text[i] = tok

\* the exception classes that `except Exception` and isinstance(_, Exception) match
ExceptionClasses == {"TimeoutExpired", "FileNotFoundError", "OSError", "TypeError",
                     "AttributeError", "ValidationError", "JSONDecodeError",
                     "ServiceError", "ValueError"}

IsException(e) == e \in ExceptionClasses

\* str(e)
StrExc(e) == <<"<", e, ">">>

\* what a call gives back: a value, or an exception that leaves it
Ret(v) == [tag |-> "ret", val |-> v]
Raise(e) == [tag |-> "raise", val |-> e]

\* CheckResult(name=..., passed=..., details=..., duration_ms=...)
CheckResult(name, passed, details, duration_ms) ==
    [name |-> name, passed |-> passed, details |-> details, duration_ms |-> duration_ms]


\* text[:n]: the longest prefix of whole tokens that fits, a token counting
\* TokLen characters; a token that does not fit is cut to "..."
TokLen(tok) == IF tok \in {"<long text>"} THEN 1000 ELSE 10

RECURSIVE Trunc(_, _)
Trunc(text, n) ==
    IF text = <<>> \/ n <= 0 THEN <<>>
    ELSE IF TokLen(Head(text)) <= n
         THEN <<Head(text)>> \o Trunc(Tail(text), n - TokLen(Head(text)))
         ELSE <<"...">>

(***************************************************************************)
(* What an external tool can do when invoked through subprocess.run:       *)
(* exit with a return code and an output, or make subprocess.run raise.    *)
(* `out` names the class of the output as the check reads it.              *)
(***************************************************************************)
Exit(rc, out) == [kind |-> "exit", rc |-> rc, out |-> out, exc |-> "", high |-> 0, medium |-> 0]
Raises(e) == [kind |-> "raise", rc |-> 0, out |-> "", exc |-> e, high |-> 0, medium |-> 0]
NoBehaviour == [kind |-> "none", rc |-> 0, out |-> "", exc |-> "", high |-> 0, medium |-> 0]

\* subprocess.TimeoutExpired, FileNotFoundError (tool not installed), any other
ProcRaises == {Raises("TimeoutExpired"), Raises("FileNotFoundError"), Raises("OSError")}

\* py_compile: stderr names a SyntaxError, or holds some other text
SyntaxBehaviours ==
    {Exit(0, ""), Exit(1, "SyntaxError"), Exit(1, "other")} \cup ProcRaises

\* mypy: stdout with one line holding "error:"
TypesBehaviours ==
    {Exit(0, ""), Exit(1, "error lines")} \cup ProcRaises

\* ruff: stdout with an :E line and a :W line
LintBehaviours ==
    {Exit(0, ""), Exit(1, "issues")} \cup ProcRaises

\* bandit -f json -ll: a report with `high` HIGH and `medium` MEDIUM results, text
\* that is no JSON, JSON that is no object, a HIGH result whose issue_text is null
Report(h, m) == [Exit(1, "report") EXCEPT !.high = h, !.medium = m]

SecurityBehaviours ==
    {Exit(0, ""), Exit(1, "not json"), Exit(1, "not an object"),
     [Exit(1, "null issue_text") EXCEPT !.high = 1]}
    \cup {Report(h, m) : h \in 0..MaxFindings, m \in 0..1}
    \cup ProcRaises

\* pytest: stdout with, or without, a line holding passed / failed / error
TestsBehaviours ==
    {Exit(0, "summary"), Exit(1, "summary"), Exit(1, "no summary")}
    \cup ProcRaises

(***************************************************************************)
(* _check_syntax                                                           *)
(***************************************************************************)
\* mutant: the extension filter is forgotten
python_filesUnfiltered(files) == files

python_files(files) == SelectSeq(files, EndsWithPy)

\* the index of the first file at or after i that exists (Len + 1: none)
RECURSIVE NextExisting(_, _)
NextExisting(pyfiles, i) ==
    IF i > Len(pyfiles) THEN i
    ELSE IF Exists(pyfiles[i]) THEN i
    ELSE NextExisting(pyfiles, i + 1)

\* mutant: a timeout of one invocation leaves no entry
SyntaxFileTimeoutDropped(file_path, b) ==
    IF b.kind = "exit"
    THEN IF b.rc # 0
         THEN IF b.out = "SyntaxError"
              THEN Ret(<<<<file_path, ": ", "<message after SyntaxError:>">>>>)
              ELSE Ret(<<<<file_path, ": ", "<stderr>">>>>)
         ELSE Ret(<<>>)
    ELSE IF b.exc = "TimeoutExpired"
         THEN Ret(<<>>)
    ELSE IF IsException(b.exc)
         THEN Ret(<<<<file_path, ": ">> \o StrExc(b.exc)>>)
    ELSE Raise(b.exc)

\* one turn of the loop for an existing file: the entries appended to errors
SyntaxFile(file_path, b) ==
    IF b.kind = "exit"
    THEN IF b.rc # 0
         THEN IF b.out = "SyntaxError"
              THEN Ret(<<<<file_path, ": ", "<message after SyntaxError:>">>>>)
              ELSE Ret(<<<<file_path, ": ", "<stderr>">>>>)
         ELSE Ret(<<>>)
    ELSE IF b.exc = "TimeoutExpired"
         THEN Ret(<<<<file_path, ": ", "Syntax check ", "timeout">>>>)
    ELSE IF IsException(b.exc)
         THEN Ret(<<<<file_path, ": ">> \o StrExc(b.exc)>>)
    ELSE Raise(b.exc)

\* int((time.perf_counter() - start) * 1000) at line 190: the measured time
\* holds the 30 s waited in each invocation that timed out
SyntaxDuration(timeouts) == Elapsed + SyntaxTimeoutMs * timeouts

\* the return after the loop
SyntaxResult(pyfiles, errors, duration) ==
    CheckResult("syntax", Len(errors) = 0,
                IF errors # <<>> THEN JoinText(errors, <<"; ">>)
                ELSE <<"All ", ToString(Len(pyfiles)), " files valid">>,
                duration)

(***************************************************************************)
(* _check_types, _check_lint, _check_security: the part before the         *)
(* invocation (None: the tool is invoked) and the part after it.           *)
(***************************************************************************)
None == [tag |-> "none", val |-> <<>>]

\* mutant: the files that do not exist are handed to the tool as well
file_argsUnfiltered(files) == python_files(files)

file_args(files) == SelectSeq(python_files(files), Exists)

BeforeTool(name, files) ==
    IF python_files(files) = <<>>
    THEN Ret(CheckResult(name, TRUE, <<"No Python files">>, 0))
    ELSE IF file_args(files) = <<>>
    THEN Ret(CheckResult(name, TRUE, <<"No files to check">>, 0))
    ELSE None

check_types(b, duration) ==
    IF b.kind = "exit"
    THEN IF b.rc = 0
         THEN Ret(CheckResult("types", TRUE, <<"No type errors">>, duration))
         ELSE Ret(CheckResult("types", FALSE,
                    Trunc(IF b.out = "error lines"
                          THEN <<"1", " type errors. First: ", "<error line>">>
                          ELSE <<"0", " type errors">>, 500),
                    duration))
    ELSE IF b.exc = "TimeoutExpired"
         THEN Ret(CheckResult("types", FALSE, <<"Type check ", "timeout", " (>120s)">>, TypesTimeoutMs))
    ELSE IF b.exc = "FileNotFoundError"
         THEN Ret(CheckResult("types", TRUE, <<"mypy not installed (", "skipped", ")">>, 0))
    ELSE IF IsException(b.exc)
         THEN Ret(CheckResult("types", FALSE, Trunc(StrExc(b.exc), 200), duration))
    ELSE Raise(b.exc)

check_lint(b, duration) ==
    IF b.kind = "exit"
    THEN IF b.rc = 0
         THEN Ret(CheckResult("lint", TRUE, <<"No lint issues">>, duration))
         ELSE Ret(CheckResult("lint", FALSE,
                    IF b.out = "issues"
                    THEN <<"2", " issues (", "1", " errors, ", "1", " warnings)",
                           ". First: ", "<issue line>">>
                    ELSE <<"0", " issues (", "0", " errors, ", "0", " warnings)">>,
                    duration))
    ELSE IF b.exc = "TimeoutExpired"
         THEN Ret(CheckResult("lint", FALSE, <<"Lint check ", "timeout">>, LintTimeoutMs))
    ELSE IF b.exc = "FileNotFoundError"
         THEN Ret(CheckResult("lint", TRUE, <<"ruff not installed (", "skipped", ")">>, 0))
    ELSE IF IsException(b.exc)
         THEN Ret(CheckResult("lint", FALSE, Trunc(StrExc(b.exc), 200), duration))
    ELSE Raise(b.exc)

\* mutant: the severity is compared with "high", which no result carries
SecurityReportLowercase(b, duration) ==
    IF b.out = "not json" THEN Raise("JSONDecodeError")
    ELSE IF b.out = "not an object" THEN Raise("AttributeError")
    ELSE IF b.high + b.medium = 0
    THEN Ret(CheckResult("security", TRUE, <<"No security issues">>, duration))
    ELSE Ret(CheckResult("security", TRUE,
               <<ToString(b.high + b.medium), " security issues (",
                 "0", " high", ", ", ToString(b.medium), " medium)">>,
               duration))

\* mutant: any finding fails the check, a MEDIUM one too
SecurityReportAnyFails(b, duration) ==
    IF b.out = "not json" THEN Raise("JSONDecodeError")
    ELSE IF b.out = "not an object" THEN Raise("AttributeError")
    ELSE IF b.high + b.medium = 0
    THEN Ret(CheckResult("security", TRUE, <<"No security issues">>, duration))
    ELSE IF b.out = "null issue_text" THEN Raise("TypeError")
    ELSE Ret(CheckResult("security", FALSE,
               <<ToString(b.high + b.medium), " security issues (",
                 ToString(b.high), " high", ", ", ToString(b.medium), " medium)">>
               \o (IF b.high > 0 THEN <<". HIGH: ", "<issue_text>">> ELSE <<>>),
               duration))

\* the inner try of _check_security: json.loads and the reading of the report
SecurityReport(b, duration) ==
    IF b.out = "not json" THEN Raise("JSONDecodeError")
    ELSE IF b.out = "not an object" THEN Raise("AttributeError")
    ELSE IF b.high + b.medium = 0
    THEN Ret(CheckResult("security", TRUE, <<"No security issues">>, duration))
    ELSE IF b.out = "null issue_text" THEN Raise("TypeError")
    ELSE Ret(CheckResult("security", b.high = 0,
               <<ToString(b.high + b.medium), " security issues (",
                 ToString(b.high), " high", ", ", ToString(b.medium), " medium)">>
               \o (IF b.high > 0 THEN <<". HIGH: ", "<issue_text>">> ELSE <<>>),
               duration))

\* mutant: the outer handlers catch the timeout and the missing tool only
check_securityNoCatchAll(b, duration) ==
    IF b.kind = "exit"
    THEN IF b.rc = 0
         THEN Ret(CheckResult("security", TRUE, <<"No security issues">>, duration))
         ELSE LET r == SecurityReport(b, duration) IN
              IF r.tag = "ret" THEN r
              ELSE IF r.val = "JSONDecodeError"
              THEN Ret(CheckResult("security", FALSE, <<"Failed to parse bandit output">>, duration))
              ELSE r
    ELSE IF b.exc = "TimeoutExpired"
         THEN Ret(CheckResult("security", FALSE, <<"Security check ", "timeout">>, SecurityTimeoutMs))
    ELSE IF b.exc = "FileNotFoundError"
         THEN Ret(CheckResult("security", TRUE, <<"bandit not installed (", "skipped", ")">>, 0))
    ELSE Raise(b.exc)

\* mutant: a scanner timeout is a soft pass, like a missing scanner
check_securityTimeoutPasses(b, duration) ==
    IF b.kind = "exit"
    THEN IF b.rc = 0
         THEN Ret(CheckResult("security", TRUE, <<"No security issues">>, duration))
         ELSE LET r == SecurityReport(b, duration) IN
              IF r.tag = "ret" THEN r
              ELSE IF r.val = "JSONDecodeError"
              THEN Ret(CheckResult("security", FALSE, <<"Failed to parse bandit output">>, duration))
              ELSE Ret(CheckResult("security", FALSE, Trunc(StrExc(r.val), 200), duration))
    ELSE IF b.exc = "TimeoutExpired"
         THEN Ret(CheckResult("security", TRUE, <<"Security check ", "timeout">>, SecurityTimeoutMs))
    ELSE IF b.exc = "FileNotFoundError"
         THEN Ret(CheckResult("security", TRUE, <<"bandit not installed (", "skipped", ")">>, 0))
    ELSE Ret(CheckResult("security", FALSE, Trunc(StrExc(b.exc), 200), duration))

check_security(b, duration) ==
    IF b.kind = "exit"
    THEN IF b.rc = 0
         THEN Ret(CheckResult("security", TRUE, <<"No security issues">>, duration))
         ELSE LET r == SecurityReport(b, duration) IN
              IF r.tag = "ret" THEN r
              ELSE IF r.val = "JSONDecodeError"
              THEN Ret(CheckResult("security", FALSE, <<"Failed to parse bandit output">>, duration))
              ELSE IF IsException(r.val)
              THEN Ret(CheckResult("security", FALSE, Trunc(StrExc(r.val), 200), duration))
              ELSE r
    ELSE IF b.exc = "TimeoutExpired"
         THEN Ret(CheckResult("security", FALSE, <<"Security check ", "timeout">>, SecurityTimeoutMs))
    ELSE IF b.exc = "FileNotFoundError"
         THEN Ret(CheckResult("security", TRUE, <<"bandit not installed (", "skipped", ")">>, 0))
    ELSE IF IsException(b.exc)
         THEN Ret(CheckResult("security", FALSE, Trunc(StrExc(b.exc), 200), duration))
    ELSE Raise(b.exc)

(***************************************************************************)
(* _run_tests                                                              *)
(***************************************************************************)
\* mutant: the loop over the candidates does not stop at the first that exists
RECURSIVE FirstExistingNoBreak(_)
FirstExistingNoBreak(cands) ==
    IF cands = <<>> THEN <<>>
    ELSE (IF Exists(Head(cands)) THEN <<Head(cands)>> ELSE <<>>)
         \o FirstExistingNoBreak(Tail(cands))

\* the first candidate that exists, as a list of at most one path
RECURSIVE FirstExisting(_)
FirstExisting(cands) ==
    IF cands = <<>> THEN <<>>
    ELSE IF Exists(Head(cands)) THEN <<Head(cands)>>
    ELSE FirstExisting(Tail(cands))

\* the loop that fills test_files
RECURSIVE test_files(_)
test_files(files) ==
    IF files = <<>> THEN <<>>
    ELSE (IF EndsWithPy(Head(files)) /\ ~StartsWithTest(Head(files))
          THEN FirstExisting(TestCandidates(Head(files)))
          ELSE <<>>) \o test_files(Tail(files))

BeforeTests(files) ==
    IF test_files(files) = <<>>
    THEN Ret(CheckResult("tests", TRUE, <<"No related tests found">>, 0))
    ELSE None

run_tests(b, duration) ==
    IF b.kind = "exit"
    THEN IF b.rc = 0
         THEN Ret(CheckResult("tests", TRUE,
                    IF b.out = "summary" THEN <<"<line with passed>">> ELSE <<"All tests passed">>,
                    duration))
         ELSE Ret(CheckResult("tests", FALSE,
                    IF b.out = "summary" THEN Trunc(<<"<line with failed or error>">>, 200)
                    ELSE <<"Tests failed">>,
                    duration))
    ELSE IF b.exc = "TimeoutExpired"
         THEN Ret(CheckResult("tests", FALSE, <<"Test ", "timeout", " (>180s)">>, TestsTimeoutMs))
    ELSE IF b.exc = "FileNotFoundError"
         THEN Ret(CheckResult("tests", TRUE, <<"pytest not installed (", "skipped", ")">>, 0))
    ELSE IF IsException(b.exc)
         THEN Ret(CheckResult("tests", FALSE, Trunc(StrExc(b.exc), 200), duration))
    ELSE Raise(b.exc)

(***************************************************************************)
(* _check_patterns and the reviewer it calls                               *)
(***************************************************************************)
\* full_path.read_text(encoding="utf-8") succeeds
Readable(f) == Exists(f)

\* the loop that fills code_snippets: the first 3 Python files, those read
code_snippets(files) ==
    LET py == python_files(files)
    IN  SelectSeq(SubSeq(py, 1, IF Len(py) < 3 THEN Len(py) ELSE 3), Readable)

BeforePatterns(files) ==
    IF python_files(files) = <<>>
    THEN Ret(CheckResult("patterns", TRUE, <<"No Python files">>, 0))
    ELSE IF code_snippets(files) = <<>>
    THEN Ret(CheckResult("patterns", TRUE, <<"No readable files">>, 0))
    ELSE None

\* What the reviewer answers: an exception out of the client (service error,
\* text that is no JSON), a JSON value that is no object, or an object whose
\* "passed" is true / false / absent / null, whose "issues" is a list of n
\* strings ("bad": a list of non-strings) and whose "summary" is a string or null.
Answer(passed, issues, summary) ==
    [kind |-> "object", passed |-> passed, issues |-> issues, summary |-> summary, exc |-> ""]
AnswerRaises(e) ==
    [kind |-> "raise", passed |-> "", issues |-> "", summary |-> "", exc |-> e]
AnswerNoObject ==
    [kind |-> "no object", passed |-> "", issues |-> "", summary |-> "", exc |-> ""]
NoAnswer ==
    [kind |-> "none", passed |-> "", issues |-> "", summary |-> "", exc |-> ""]

WellFormedAnswers ==
    {Answer("true", "none", "string"), Answer("false", "none", "string"),
     Answer("false", "some", "string")}

ReviewerAnswers ==
    WellFormedAnswers
    \cup {Answer("absent", "none", "absent"), Answer("null", "none", "string"),
          Answer("false", "bad", "string"), Answer("true", "none", "null"),
          AnswerNoObject, AnswerRaises("ServiceError")}

\* LLMClient.chat_json(messages, model=None) called with the keywords kwargs:
\* a keyword the signature does not have is a TypeError at the call
LLMClient_chat_json(kwargs) ==
    IF kwargs \subseteq {"messages", "model"} THEN None ELSE Raise("TypeError")

\* self.llm_client.chat_json(messages=..., temperature=0.1), up to the request:
\* the unified LLMClient, or a client put in its place that takes the keywords
chat_json_call(client) ==
    IF client = "LLMClient" THEN LLMClient_chat_json({"messages", "temperature"})
    ELSE None

\* CheckResult(...) is a validated model: passed must be a bool
ValidatedCheckResult(name, passed, details, duration) ==
    IF passed \in {"true", "false"}
    THEN Ret(CheckResult(name, passed = "true", details, duration))
    ELSE Raise("ValidationError")

\* the try block after the answer `a` has come back
PatternsBody(a, duration) ==
    IF a.kind = "raise" THEN Raise(a.exc)
    ELSE IF a.kind = "no object" THEN Raise("AttributeError")
    ELSE LET passed == IF a.passed = "absent" THEN "true" ELSE a.passed
             summary == IF a.summary = "absent" THEN <<"Pattern check complete">>
                        ELSE <<"<summary>">>
             falsy == passed \in {"false", "null"}
             text == IF a.summary = "null" THEN <<"None">> ELSE summary
         IN  IF falsy /\ a.issues = "bad" THEN Raise("TypeError")
             ELSE IF falsy /\ a.issues = "some"
             THEN ValidatedCheckResult("patterns", passed,
                      Trunc(text \o <<". Issues: ", "<issue>">>, 300), duration)
             ELSE IF a.summary = "null" THEN Raise("TypeError")
             ELSE ValidatedCheckResult("patterns", passed, Trunc(summary, 300), duration)

\* mutant: a failed review is a failed outcome
PatternsExceptFails(r, duration) ==
    IF r.tag = "raise" /\ IsException(r.val)
    THEN Ret(CheckResult("patterns", FALSE,
               <<"LLM review ", "skipped", ": ">> \o Trunc(StrExc(r.val), 100), duration))
    ELSE r

\* except Exception as e: the soft pass
PatternsExcept(r, duration) ==
    IF r.tag = "raise" /\ IsException(r.val)
    THEN Ret(CheckResult("patterns", TRUE,
               <<"LLM review ", "skipped", ": ">> \o Trunc(StrExc(r.val), 100), duration))
    ELSE r

check_patterns(a, duration) == PatternsExcept(PatternsBody(a, duration), duration)

(***************************************************************************)
(* execute, lines 94-131: errors, warnings, status, recommendation and     *)
(* confidence from the six outcomes.                                       *)
(***************************************************************************)
CheckNames == {"syntax", "types", "lint", "security", "tests", "patterns"}
check_names == <<"syntax", "types", "lint", "security">>
\* mutant: syntax is left out of the critical checks
critical_checksTypesOnly == <<"types">>

critical_checks == <<"syntax", "types">>
\* mutant: patterns is left out of the warning checks
warning_checksNoPatterns == <<"lint", "security", "tests">>

warning_checks == <<"lint", "security", "tests", "patterns">>

\* for name in names: if not checks[name].passed: append(f"{name}: {details}")
RECURSIVE FailedEntries(_, _)
FailedEntries(names, checks) ==
    IF names = <<>> THEN <<>>
    ELSE (IF ~checks[Head(names)].passed
          THEN <<<<Head(names), ": ">> \o checks[Head(names)].details>>
          ELSE <<>>) \o FailedEntries(Tail(names), checks)

\* mutant: the security branch is tested before the critical one
DecideSecurityFirst(checks, warnings) ==
    IF ~checks["security"].passed THEN [status |-> "FAIL", recommendation |-> "ESCALATE"]
    ELSE IF ~checks["syntax"].passed \/ ~checks["types"].passed
    THEN [status |-> "FAIL", recommendation |-> "RETRY"]
    ELSE IF ~checks["tests"].passed THEN [status |-> "WARN", recommendation |-> "RETRY"]
    ELSE IF warnings # <<>> THEN [status |-> "WARN", recommendation |-> "PROCEED"]
    ELSE [status |-> "PASS", recommendation |-> "PROCEED"]

\* the if / elif chain over critical_failed, security_failed, tests_failed, warnings
Decide(checks, warnings) ==
    LET critical_failed == \E i \in 1..Len(critical_checks) : ~checks[critical_checks[i]].passed
        security_failed == ~checks["security"].passed
        tests_failed == ~checks["tests"].passed
    IN  IF critical_failed THEN [status |-> "FAIL", recommendation |-> "RETRY"]
        ELSE IF security_failed THEN [status |-> "FAIL", recommendation |-> "ESCALATE"]
        ELSE IF tests_failed THEN [status |-> "WARN", recommendation |-> "RETRY"]
        ELSE IF warnings # <<>> THEN [status |-> "WARN", recommendation |-> "PROCEED"]
        ELSE [status |-> "PASS", recommendation |-> "PROCEED"]

\* mutant: security weighs 1 and lint 2
weightsSecurityLight == [syntax |-> 2, types |-> 2, lint |-> 2, security |-> 1, tests |-> 2, patterns |-> 1]

weights == [syntax |-> 2, types |-> 2, lint |-> 1, security |-> 2, tests |-> 2, patterns |-> 1]

\* sum(w[k] for k in keys)
RECURSIVE SumOf(_, _)
SumOf(w, keys) ==
    IF keys = {} THEN 0
    ELSE LET k == CHOOSE x \in keys : TRUE IN w[k] + SumOf(w, keys \ {k})

\* mutant: every check counts 1
ConfidenceUnweighted(checks) ==
    [num |-> Cardinality({name \in DOMAIN checks : checks[name].passed}),
     den |-> Cardinality(DOMAIN checks)]

\* mutant: a check passed only because its tool is missing does not count
ConfidenceNoSoftPass(checks) ==
    [num |-> SumOf(weights, {name \in DOMAIN checks :
                                checks[name].passed /\ ~Contains(checks[name].details, "skipped")}),
     den |-> SumOf(weights, DOMAIN weights)]

\* weighted_score / total_weight, kept as the two integers of the division
Confidence(checks) ==
    [num |-> SumOf(weights, {name \in DOMAIN checks : checks[name].passed}),
     den |-> SumOf(weights, DOMAIN weights)]

\* mutant: the checks that were skipped are left out of the result
VerificationResultRunOnly(checks) ==
    LET errors == FailedEntries(critical_checks, checks)
        warnings == FailedEntries(warning_checks, checks)
        d == Decide(checks, warnings)
        ran == {n \in DOMAIN checks : checks[n].details # <<"Skipped due to syntax errors">>}
    IN  [status |-> d.status,
         checks |-> [n \in ran |-> checks[n]],
         overall_confidence |-> Confidence(checks),
         recommendation |-> d.recommendation,
         errors |-> errors,
         warnings |-> warnings]

VerificationResult(checks) ==
    LET errors == FailedEntries(critical_checks, checks)
        warnings == FailedEntries(warning_checks, checks)
        d == Decide(checks, warnings)
    IN  [status |-> d.status,
         checks |-> checks,
         overall_confidence |-> Confidence(checks),
         recommendation |-> d.recommendation,
         errors |-> errors,
         warnings |-> warnings]

NoResult ==
    [status |-> "", checks |-> <<>>, overall_confidence |-> [num |-> 0, den |-> 1],
     recommendation |-> "", errors |-> <<>>, warnings |-> <<>>]

(***************************************************************************)
(* One call of execute.                                                    *)
(***************************************************************************)
VARIABLES
    files_modified,  \* input_data.files_modified
    client,          \* what self.llm_client is: "LLMClient" or "injected"
    pc,              \* where execute is
    called,          \* the check operations called so far
    invoked,         \* per tool, how often it was invoked so far
    out,             \* per check operation, what it gave back (None: not yet)
    syn,             \* _check_syntax: index into python_files, errors, timeouts so far
    beh,             \* per tool, what its last invocation did
    answer,          \* what the reviewer answered
    checks,          \* the dict `checks`
    result,          \* what execute returned
    running,         \* the tools whose subprocess.run is executing in a worker thread
    quick,           \* what verify_quick returned
    again            \* a call of execute on this agent has returned before

vars == <<files_modified, client, pc, called, invoked, out, syn, beh, answer,
          checks, result, running, quick, again>>

input == <<files_modified, client>>

\* all lists over S of length at most n
SeqsUpTo(S, n) == UNION {[1..k -> S] : k \in 0..n}

Init ==
    /\ files_modified \in SeqsUpTo(Paths, MaxFiles)
    /\ client \in {"LLMClient", "injected"}
    /\ pc = "start"
    /\ called = {}
    /\ invoked = [n \in CheckNames |-> 0]
    /\ out = [n \in CheckNames |-> None]
    /\ syn = [i |-> 0, errors |-> <<>>, timeouts |-> 0]
    /\ beh = [n \in CheckNames \ {"patterns"} |-> NoBehaviour]
    /\ answer = NoAnswer
    /\ checks = <<>>
    /\ result = NoResult
    /\ running = {}
    /\ quick = None
    /\ again = FALSE

\* _check_syntax from its start, or from the file after index i, up to its
\* next invocation of py_compile or its return
SyntaxAdvance(i, errors, timeouts) ==
    LET py == python_files(files_modified)
        j == NextExisting(py, i + 1)
    IN  IF py = <<>>
        THEN [out |-> Ret(CheckResult("syntax", TRUE, <<"No Python files">>, 0)),
              syn |-> [i |-> 0, errors |-> errors, timeouts |-> timeouts]]
        ELSE IF j > Len(py)
        THEN [out |-> Ret(SyntaxResult(py, errors, SyntaxDuration(timeouts))),
              syn |-> [i |-> j, errors |-> errors, timeouts |-> timeouts]]
        ELSE [out |-> None, syn |-> [i |-> j, errors |-> errors, timeouts |-> timeouts]]

\* mutant: the errors list of _check_syntax lives on the agent and is not made
\* anew by a call
GatherKeepsErrors ==
    /\ pc = "start"
    /\ LET s == SyntaxAdvance(0, syn.errors, syn.timeouts)
           o == [n \in CheckNames |->
                    IF n = "syntax" THEN s.out
                    ELSE IF n \in {"types", "lint", "security"} THEN BeforeTool(n, files_modified)
                    ELSE None]
       IN  /\ out' = o
           /\ syn' = s.syn
           /\ invoked' = [n \in CheckNames |->
                            IF n \in {"syntax", "types", "lint", "security"} /\ o[n].tag = "none"
                            THEN 1 ELSE 0]
           /\ running' = {n \in {"syntax", "types", "lint", "security"} : o[n].tag = "none"}
    /\ called' = {"syntax", "types", "lint", "security"}
    /\ pc' = "gather"
    /\ UNCHANGED <<input, again, quick, beh, answer, checks, result>>

\* asyncio.gather(...): the four coroutines run, in order, up to their first
\* await (the tool invocation) or their return
Gather ==
    /\ pc = "start"
    /\ LET s == SyntaxAdvance(0, <<>>, 0)
           o == [n \in CheckNames |->
                    IF n = "syntax" THEN s.out
                    ELSE IF n \in {"types", "lint", "security"} THEN BeforeTool(n, files_modified)
                    ELSE None]
       IN  /\ out' = o
           /\ syn' = s.syn
           /\ invoked' = [n \in CheckNames |->
                            IF n \in {"syntax", "types", "lint", "security"} /\ o[n].tag = "none"
                            THEN 1 ELSE 0]
           /\ running' = {n \in {"syntax", "types", "lint", "security"} : o[n].tag = "none"}
    /\ called' = {"syntax", "types", "lint", "security"}
    /\ pc' = "gather"
    /\ UNCHANGED <<input, again, quick, beh, answer, checks, result>>

Running(n) == pc = "gather" /\ n \in called /\ out[n].tag = "none"

\* one py_compile invocation completes
SyntaxFileDone ==
    /\ Running("syntax")
    /\ \E b \in SyntaxBehaviours :
         LET r == SyntaxFile(python_files(files_modified)[syn.i], b)
             s == SyntaxAdvance(syn.i, syn.errors \o r.val,
                                syn.timeouts + (IF b.exc = "TimeoutExpired" THEN 1 ELSE 0))
         IN  /\ beh' = [beh EXCEPT !["syntax"] = b]
             /\ IF r.tag = "raise"
                THEN /\ out' = [out EXCEPT !["syntax"] = r]
                     /\ running' = running \ {"syntax"}
                     /\ UNCHANGED <<syn, invoked>>
                ELSE /\ out' = [out EXCEPT !["syntax"] = s.out]
                     /\ running' = IF s.out.tag = "none" THEN running ELSE running \ {"syntax"}
                     /\ syn' = s.syn
                     /\ invoked' = [invoked EXCEPT !["syntax"] = @ + (IF s.out.tag = "none" THEN 1 ELSE 0)]
    /\ UNCHANGED <<input, again, quick, pc, called, answer, checks, result>>

\* what a completing invocation of tool n leaves
ToolDone(n, b, r) ==
    /\ beh' = [beh EXCEPT ![n] = b]
    /\ out' = [out EXCEPT ![n] = r]
    /\ running' = running \ {n}
    /\ UNCHANGED <<input, again, quick, pc, called, invoked, syn, answer, checks, result>>

TypesDone ==
    /\ Running("types")
    /\ \E b \in TypesBehaviours : ToolDone("types", b, check_types(b, Elapsed))

LintDone ==
    /\ Running("lint")
    /\ \E b \in LintBehaviours : ToolDone("lint", b, check_lint(b, Elapsed))

SecurityDone ==
    /\ Running("security")
    /\ \E b \in SecurityBehaviours : ToolDone("security", b, check_security(b, Elapsed))

\* mutant: the exception of a gathered check is recorded as a pass
CollectedPasses(name, r) ==
    IF r.tag = "raise"
    THEN CheckResult(name, TRUE, StrExc(r.val), 0)
    ELSE r.val

\* for name, result in zip(check_names, parallel_checks): one entry of checks
Collected(name, r) ==
    IF r.tag = "raise"
    THEN CheckResult(name, FALSE, StrExc(r.val), 0)
    ELSE r.val

\* mutant: execute goes on as soon as the syntax check is back
GatherDoneEarly ==
    /\ pc = "gather"
    /\ out["syntax"].tag = "ret"
    /\ checks' = [n \in {check_names[i] : i \in 1..Len(check_names)} |->
                    IF out[n].tag = "ret" THEN out[n].val
                    ELSE CheckResult(n, TRUE, <<"pending">>, 0)]
    /\ pc' = "joined"
    /\ UNCHANGED <<input, again, quick, running, called, invoked, out, syn, beh, answer, result>>

\* the gather has all four results: lines 79-84
GatherDone ==
    /\ pc = "gather"
    /\ \A i \in 1..Len(check_names) : out[check_names[i]].tag # "none"
    /\ IF \E i \in 1..Len(check_names) :
             out[check_names[i]].tag = "raise" /\ ~IsException(out[check_names[i]].val)
       THEN \* the exception object is stored as the outcome; reading .passed fails
            /\ pc' = "raised"
            /\ UNCHANGED checks
       ELSE /\ checks' = [n \in {check_names[i] : i \in 1..Len(check_names)} |-> Collected(n, out[n])]
            /\ pc' = "joined"
    /\ UNCHANGED <<input, again, quick, running, called, invoked, out, syn, beh, answer, result>>

\* mutant: a check that was not run is a neutral, passed outcome
SkippedNeutral(name) == CheckResult(name, TRUE, <<"Skipped due to syntax errors">>, 0)

Skipped(name) == CheckResult(name, FALSE, <<"Skipped due to syntax errors">>, 0)

\* dict assignment checks[name] = r
Put(d, name, r) == [n \in DOMAIN d \cup {name} |-> IF n = name THEN r ELSE d[n]]

\* line 87, else branch: both dependent outcomes are set without a call
SkipDependents ==
    /\ pc = "joined"
    /\ ~checks["syntax"].passed
    /\ checks' = Put(Put(checks, "tests", Skipped("tests")), "patterns", Skipped("patterns"))
    /\ pc' = "aggregate"
    /\ UNCHANGED <<input, again, quick, running, called, invoked, out, syn, beh, answer, result>>

\* what execute does with the value or exception of an awaited check
Awaited(name, r, next) ==
    IF r.tag = "ret"
    THEN /\ checks' = Put(checks, name, r.val)
         /\ pc' = next
    ELSE /\ pc' = "raised"
         /\ UNCHANGED checks

\* mutant: the tests are started whatever the syntax outcome is
StartTestsAlways ==
    /\ pc = "joined"
    /\ called' = called \cup {"tests"}
    /\ LET r == BeforeTests(files_modified) IN
         /\ out' = [out EXCEPT !["tests"] = r]
         /\ IF r.tag = "none"
            THEN /\ invoked' = [invoked EXCEPT !["tests"] = @ + 1]
                 /\ running' = running \cup {"tests"}
                 /\ pc' = "tests"
                 /\ UNCHANGED checks
            ELSE /\ Awaited("tests", r, "tests done")
                 /\ UNCHANGED <<invoked, running>>
    /\ UNCHANGED <<input, again, quick, syn, beh, answer, result>>

\* mutant: the tests and the patterns check are started together
StartTestsWithPatterns ==
    /\ pc = "joined"
    /\ checks["syntax"].passed
    /\ called' = called \cup {"tests", "patterns"}
    /\ LET r == BeforeTests(files_modified) IN
         /\ out' = [out EXCEPT !["tests"] = r]
         /\ IF r.tag = "none"
            THEN /\ invoked' = [invoked EXCEPT !["tests"] = @ + 1]
                 /\ running' = running \cup {"tests"}
                 /\ pc' = "tests"
                 /\ UNCHANGED checks
            ELSE /\ Awaited("tests", r, "tests done")
                 /\ UNCHANGED <<invoked, running>>
    /\ UNCHANGED <<input, again, quick, syn, beh, answer, result>>

\* line 88: _run_tests up to the invocation of pytest, or to its return
StartTests ==
    /\ pc = "joined"
    /\ checks["syntax"].passed
    /\ called' = called \cup {"tests"}
    /\ LET r == BeforeTests(files_modified) IN
         /\ out' = [out EXCEPT !["tests"] = r]
         /\ IF r.tag = "none"
            THEN /\ invoked' = [invoked EXCEPT !["tests"] = @ + 1]
                 /\ running' = running \cup {"tests"}
                 /\ pc' = "tests"
                 /\ UNCHANGED checks
            ELSE /\ Awaited("tests", r, "tests done")
                 /\ UNCHANGED <<invoked, running>>
    /\ UNCHANGED <<input, again, quick, syn, beh, answer, result>>

TestsDone ==
    /\ pc = "tests"
    /\ \E b \in TestsBehaviours :
         LET r == run_tests(b, Elapsed) IN
         /\ beh' = [beh EXCEPT !["tests"] = b]
         /\ out' = [out EXCEPT !["tests"] = r]
         /\ Awaited("tests", r, "tests done")
    /\ running' = running \ {"tests"}
    /\ UNCHANGED <<input, again, quick, called, invoked, syn, answer, result>>

\* line 89: _check_patterns up to the request to the reviewer, or to its return
StartPatterns ==
    /\ pc = "tests done"
    /\ called' = called \cup {"patterns"}
    /\ LET before == BeforePatterns(files_modified)
           call == chat_json_call(client)
           r == IF before.tag # "none" THEN before
                ELSE IF call.tag = "raise" THEN PatternsExcept(call, Elapsed)
                ELSE None
       IN  /\ out' = [out EXCEPT !["patterns"] = r]
           /\ invoked' = [invoked EXCEPT !["patterns"] = @ + (IF before.tag = "none" THEN 1 ELSE 0)]
           /\ IF r.tag = "none"
              THEN /\ pc' = "patterns"
                   /\ UNCHANGED checks
              ELSE Awaited("patterns", r, "aggregate")
    /\ UNCHANGED <<input, again, quick, running, syn, beh, answer, result>>

PatternsDone ==
    /\ pc = "patterns"
    /\ \E a \in ReviewerAnswers :
         LET r == check_patterns(a, Elapsed) IN
         /\ answer' = a
         /\ out' = [out EXCEPT !["patterns"] = r]
         /\ Awaited("patterns", r, "aggregate")
    /\ UNCHANGED <<input, again, quick, running, called, invoked, syn, beh, result>>

\* lines 94-152: the result is built and returned
Aggregate ==
    /\ pc = "aggregate"
    /\ result' = VerificationResult(checks)
    /\ pc' = "done"
    /\ UNCHANGED <<input, again, quick, running, called, invoked, out, syn, beh, answer, checks>>

Next ==
    \/ Gather
    \/ SyntaxFileDone
    \/ TypesDone
    \/ LintDone
    \/ SecurityDone
    \/ GatherDone
    \/ SkipDependents
    \/ StartTests
    \/ TestsDone
    \/ StartPatterns
    \/ PatternsDone
    \/ Aggregate

Spec == Init /\ [][Next]_vars

(***************************************************************************)
(* A file system that fails.  full_path.exists() at line 166 stands        *)
(* outside the try of _check_syntax: an OSError out of it (a directory     *)
(* that may not be searched) leaves _check_syntax and is what              *)
(* asyncio.gather(..., return_exceptions=True) gives back for it.  The     *)
(* same probe in _check_types, _check_lint and _check_security stands      *)
(* inside their try, where it is handled like an OSError out of the tool.  *)
(***************************************************************************)
\* the gather, with the probe of the first Python file failing in _check_syntax
GatherProbeRaises ==
    /\ pc = "start"
    /\ python_files(files_modified) # <<>>
    /\ LET o == [n \in CheckNames |->
                    IF n = "syntax" THEN Raise("OSError")
                    ELSE IF n \in {"types", "lint", "security"} THEN BeforeTool(n, files_modified)
                    ELSE None]
       IN  /\ out' = o
           /\ invoked' = [n \in CheckNames |->
                            IF n \in {"types", "lint", "security"} /\ o[n].tag = "none"
                            THEN 1 ELSE 0]
           /\ running' = {n \in {"types", "lint", "security"} : o[n].tag = "none"}
    /\ called' = {"syntax", "types", "lint", "security"}
    /\ pc' = "gather"
    /\ UNCHANGED <<input, again, quick, syn, beh, answer, checks, result>>

NextFs ==
    \/ Next
    \/ GatherProbeRaises

SpecFs == Init /\ [][NextFs]_vars

(***************************************************************************)
(* Properties of a call of execute.                                        *)
(***************************************************************************)
Returned == pc = "done"
Passed(n) == result.checks[n].passed
Verdict == <<result.status, result.recommendation>>
ConfidenceIsOne == result.overall_confidence.num = result.overall_confidence.den

\* the scanner exited non-zero with a report that holds a HIGH result
HighReported == beh["security"].kind = "exit" /\ beh["security"].rc # 0 /\ beh["security"].high >= 1

\* C1: the result returned by execute has exactly the six keys syntax, types,
\* lint, security, tests, patterns in its checks map, whatever each tool did.
C1_ExactlySixKeys ==
    Returned => DOMAIN result.checks = {"syntax", "types", "lint", "security", "tests", "patterns"}

C1_Witness ==
    /\ Returned
    /\ beh["types"].exc = "OSError"
    /\ beh["lint"].exc = "FileNotFoundError"
    /\ beh["security"].exc = "TimeoutExpired"
    /\ beh["tests"].kind = "exit" /\ beh["tests"].rc # 0

\* the priority table of C2 over the pass / fail values p of the six outcomes
PriorityTable(p) ==
    IF ~p["syntax"] \/ ~p["types"] THEN <<"FAIL", "RETRY">>
    ELSE IF ~p["security"] THEN <<"FAIL", "ESCALATE">>
    ELSE IF ~p["tests"] THEN <<"WARN", "RETRY">>
    ELSE IF ~p["lint"] \/ ~p["patterns"] THEN <<"WARN", "PROCEED">>
    ELSE <<"PASS", "PROCEED">>

\* six outcomes with the pass / fail values p
OutcomesOf(p) == [n \in CheckNames |-> CheckResult(n, p[n], <<"<details>">>, 0)]

\* C2: status and recommendation are the priority table evaluated top-down on
\* the six outcomes: in every result returned, and for each of the 64 pass /
\* fail combinations put through the decision code.
C2_PriorityTable ==
    /\ Returned => Verdict = PriorityTable([n \in CheckNames |-> Passed(n)])
    /\ pc = "start" => \A p \in [CheckNames -> BOOLEAN] :
         LET d == Decide(OutcomesOf(p), FailedEntries(warning_checks, OutcomesOf(p)))
         IN  <<d.status, d.recommendation>> = PriorityTable(p)

C2_Witness ==
    /\ Returned
    /\ Verdict = <<"WARN", "PROCEED">>
    /\ Passed("lint") /\ ~Passed("patterns")

\* C3 as stated: status is FAIL exactly when syntax or types failed or the
\* scanner reported a HIGH finding.
C3_FailIffCriticalOrHigh ==
    Returned => (result.status = "FAIL" <=> (~Passed("syntax") \/ ~Passed("types") \/ HighReported))

\* C3 amended: status is FAIL exactly when the syntax, types or security
\* outcome failed; and the security outcome fails exactly when the scanner was
\* run and reported a HIGH finding, timed out, gave output that is not the
\* structured report, or raised an unexpected exception.
C3_FailIffCriticalOrSecurityFailed ==
    Returned =>
        /\ result.status = "FAIL" <=> (~Passed("syntax") \/ ~Passed("types") \/ ~Passed("security"))
        /\ ~Passed("security") <=>
              /\ invoked["security"] > 0
              /\ \/ HighReported
                 \/ beh["security"].exc \in {"TimeoutExpired", "OSError"}
                 \/ beh["security"].out \in {"not json", "not an object"}

C3_Witness ==
    /\ Returned
    /\ Passed("syntax") /\ Passed("types")
    /\ beh["security"].exc = "TimeoutExpired"
    /\ result.status = "FAIL"

\* C4: overall_confidence is the sum of the weights syntax 2, types 2, lint 1,
\* security 2, tests 2, patterns 1 of the passing checks, over 10, and so lies
\* between 0 and 1.
C4_WeightedConfidence ==
    Returned =>
        /\ result.overall_confidence.den = 10
        /\ result.overall_confidence.num =
               (IF Passed("syntax") THEN 2 ELSE 0) + (IF Passed("types") THEN 2 ELSE 0)
             + (IF Passed("lint") THEN 1 ELSE 0) + (IF Passed("security") THEN 2 ELSE 0)
             + (IF Passed("tests") THEN 2 ELSE 0) + (IF Passed("patterns") THEN 1 ELSE 0)
        /\ 0 <= result.overall_confidence.num
        /\ result.overall_confidence.num <= result.overall_confidence.den

C4_Witness ==
    /\ Returned
    /\ result.overall_confidence.num = 7
    /\ ~Passed("lint") /\ ~Passed("security")

\* C5: when the syntax outcome failed, tests and patterns are failed outcomes
\* with details 'Skipped due to syntax errors' and duration 0, and neither
\* _run_tests, _check_patterns, pytest nor the reviewer was called in the run;
\* when it passed, _run_tests and _check_patterns were both called.
C5_DependentsFollowSyntax ==
    /\ (pc \in {"joined", "aggregate", "done"} /\ ~checks["syntax"].passed) =>
          /\ {"tests", "patterns"} \cap called = {}
          /\ invoked["tests"] = 0 /\ invoked["patterns"] = 0
    /\ (Returned /\ ~Passed("syntax")) =>
          \A n \in {"tests", "patterns"} :
              /\ ~Passed(n)
              /\ result.checks[n].details = <<"Skipped due to syntax errors">>
              /\ result.checks[n].duration_ms = 0
    /\ (Returned /\ Passed("syntax")) => {"tests", "patterns"} \subseteq called

C5_Witness ==
    /\ Returned
    /\ ~Passed("syntax")
    /\ Passed("types") /\ Passed("lint") /\ Passed("security")
    /\ invoked["types"] = 1

\* C6: when the syntax check failed, execute returns FAIL and RETRY, and errors
\* is non-empty and holds the entry 'syntax: <details>', whatever the types,
\* lint and security outcomes are.
C6_SyntaxFailureRetries ==
    (Returned /\ ~Passed("syntax")) =>
        /\ Verdict = <<"FAIL", "RETRY">>
        /\ result.errors # <<>>
        /\ \E i \in 1..Len(result.errors) :
               result.errors[i] = <<"syntax", ": ">> \o result.checks["syntax"].details

C6_Witness ==
    /\ Returned
    /\ ~Passed("syntax")
    /\ Passed("types") /\ ~Passed("security") /\ ~Passed("lint")

\* C7: when the scanner reports at least one HIGH finding and syntax and types
\* passed, execute returns FAIL and ESCALATE, whatever the lint, tests and
\* patterns outcomes are.
C7_HighFindingEscalates ==
    (Returned /\ Passed("syntax") /\ Passed("types") /\ HighReported) =>
        Verdict = <<"FAIL", "ESCALATE">>

C7_Witness ==
    /\ Returned
    /\ Passed("syntax") /\ Passed("types") /\ HighReported
    /\ ~Passed("lint") /\ ~Passed("tests") /\ ~Passed("patterns")

\* C8: when all six checks passed, be it as a soft pass, execute returns PASS
\* and PROCEED with confidence 1.0 and with errors and warnings empty.
C8_AllPassIsPass ==
    (Returned /\ \A n \in CheckNames : Passed(n)) =>
        /\ Verdict = <<"PASS", "PROCEED">>
        /\ ConfidenceIsOne
        /\ result.errors = <<>>
        /\ result.warnings = <<>>

C8_Witness ==
    /\ Returned
    /\ \A n \in CheckNames : Passed(n)
    /\ beh["types"].exc = "FileNotFoundError"
    /\ invoked["tests"] = 1 /\ invoked["patterns"] = 1

\* C9: when files_modified holds no path ending in .py (the empty list
\* included), no tool and no reviewer is invoked, execute does not raise, and
\* it returns six passed outcomes, confidence 1.0 and PASS.
C9_NoSourceFilesPass ==
    (\A i \in 1..Len(files_modified) : ~EndsWithPy(files_modified[i])) =>
        /\ \A n \in CheckNames : invoked[n] = 0
        /\ pc # "raised"
        /\ Returned =>
              /\ \A n \in CheckNames : Passed(n)
              /\ ConfidenceIsOne
              /\ result.status = "PASS"

C9_Witness ==
    /\ Returned
    /\ files_modified = <<"README.md">>

\* C10: each of the six check operations gives back a CheckOutcome of its own
\* name and never raises, whatever its tool or the reviewer did (clean exit,
\* non-zero exit, timeout, tool missing, unexpected exception, malformed or
\* wrongly-shaped output), and so execute does not raise either.
C10_ChecksNeverRaise ==
    /\ pc # "raised"
    /\ \A n \in CheckNames :
         /\ out[n].tag # "raise"
         /\ out[n].tag = "ret" =>
               /\ out[n].val.name = n
               /\ out[n].val.passed \in BOOLEAN
               /\ out[n].val.duration_ms >= 0

C10_Witness ==
    /\ Returned
    /\ beh["types"].exc = "OSError"
    /\ beh["security"].out = "not an object"
    /\ beh["tests"].exc = "TimeoutExpired"
    /\ answer = AnswerNoObject

(***************************************************************************)
(* Properties of the fan-out under a failing file system.                  *)
(***************************************************************************)
Joined == pc \in {"joined", "tests", "tests done", "patterns", "aggregate", "done"}

\* an exception that no handler of the check names: out of the tool, or out of
\* the reading of the scanner's report
UnexpectedIn(n) ==
    /\ invoked[n] > 0
    /\ \/ beh[n].exc = "OSError"
       \/ n = "security" /\ beh[n].out \in {"not an object", "null issue_text"}

\* the outcome of types, lint or security as its own tool alone decides it
OwnOutcome(n) ==
    IF invoked[n] = 0 THEN BeforeTool(n, files_modified).val
    ELSE IF n = "types" THEN check_types(beh[n], Elapsed).val
    ELSE IF n = "lint" THEN check_lint(beh[n], Elapsed).val
    ELSE check_security(beh[n], Elapsed).val

\* C11: when one of syntax, types, lint, security raises an unexpected
\* exception, that check gets a failed outcome that carries the exception
\* text, the gather is not aborted, and each of the other checks ran to
\* completion with the outcome its own tool alone decides.
C11_ExceptionStaysInItsCheck ==
    /\ pc # "raised"
    /\ Joined =>
          /\ {"syntax", "types", "lint", "security"} \subseteq DOMAIN checks
          /\ out["syntax"].tag = "raise" =>
                /\ ~checks["syntax"].passed
                /\ checks["syntax"].details = StrExc(out["syntax"].val)
          /\ \A n \in {"types", "lint", "security"} :
                /\ UnexpectedIn(n) =>
                      /\ ~checks[n].passed
                      /\ Contains(checks[n].details, "OSError")
                         \/ Contains(checks[n].details, "AttributeError")
                         \/ Contains(checks[n].details, "TypeError")
                /\ out[n].tag = "ret"
                /\ checks[n] = OwnOutcome(n)

C11_Witness ==
    /\ Returned
    /\ out["syntax"].tag = "raise"
    /\ invoked["types"] = 1 /\ Passed("types")
    /\ beh["lint"].exc = "OSError" /\ ~Passed("lint")
    /\ HighReported

(***************************************************************************)
(* The common policy of the checks that invoke a tool.                     *)
(***************************************************************************)
ToolChecks == {"syntax", "types", "lint", "security", "tests"}

\* the configured timeout of each kind, in ms
Ceiling(n) ==
    CASE n = "syntax" -> SyntaxTimeoutMs
      [] n = "types" -> TypesTimeoutMs
      [] n = "lint" -> LintTimeoutMs
      [] n = "security" -> SecurityTimeoutMs
      [] n = "tests" -> TestsTimeoutMs

\* check n has given back an outcome after an invocation that raised e
\* (_check_syntax: after at least one, its last one)
GaveBackAfter(n, e) == out[n].tag = "ret" /\ invoked[n] > 0 /\ beh[n].exc = e

\* C12 as stated: a check whose tool is not installed (the invocation raises
\* FileNotFoundError) gives a passed outcome with a 'skipped' note, for each
\* of syntax, types, lint, security and tests, and its full weight counts in
\* overall_confidence.
C12_MissingToolSoftPasses ==
    \A n \in ToolChecks :
        GaveBackAfter(n, "FileNotFoundError") =>
            /\ out[n].val.passed
            /\ Contains(out[n].val.details, "skipped")
            /\ (Returned /\ Passed("syntax")) =>
                  result.overall_confidence.num >= weights[n]

\* C13 as stated: a check whose invocation timed out gives a failed outcome
\* whose details hold the word 'timeout' and whose duration_ms is the
\* configured ceiling of its kind: 30000, 120000, 60000, 60000, 180000.
C13_TimeoutRecordsCeiling ==
    \A n \in ToolChecks :
        (out[n].tag = "ret" /\ invoked[n] > 0
            /\ IF n = "syntax" THEN syn.timeouts > 0 ELSE beh[n].exc = "TimeoutExpired") =>
            /\ ~out[n].val.passed
            /\ Contains(out[n].val.details, "timeout")
            /\ out[n].val.duration_ms = Ceiling(n)

(***************************************************************************)
(* The pattern review.                                                     *)
(***************************************************************************)
\* the call of the reviewer failed: the client refused the call, raised, or
\* gave an answer that the reading of it cannot use
ReviewFailed ==
    /\ invoked["patterns"] > 0
    /\ \/ chat_json_call(client).tag = "raise"
       \/ answer \in {AnswerRaises("ServiceError"), AnswerNoObject,
                       Answer("false", "bad", "string"), Answer("true", "none", "null")}

OwnSyntaxOutcome ==
    IF python_files(files_modified) = <<>>
    THEN CheckResult("syntax", TRUE, <<"No Python files">>, 0)
    ELSE SyntaxResult(python_files(files_modified), syn.errors, SyntaxDuration(syn.timeouts))

\* C15: _run_tests and _check_patterns are called only after syntax, types,
\* lint and security have all given back their outcomes and the syntax
\* outcome is in checks; _check_patterns is called only after _run_tests has
\* given back; and the entries of checks for the four gathered checks do not
\* depend on the order in which the four completed.
C15_DependentsAfterFanOut ==
    /\ ({"tests", "patterns"} \cap called # {}) =>
          /\ \A n \in {"syntax", "types", "lint", "security"} :
                n \in called /\ out[n].tag = "ret" /\ n \notin running
          /\ "syntax" \in DOMAIN checks /\ checks["syntax"].passed
    /\ "patterns" \in called =>
          /\ out["tests"].tag = "ret"
          /\ "tests" \in DOMAIN checks /\ checks["tests"] = out["tests"].val
          /\ "tests" \notin running
    /\ Joined =>
          /\ \A n \in {"syntax", "types", "lint", "security"} : out[n].tag = "ret"
          /\ checks["syntax"] = OwnSyntaxOutcome
          /\ \A n \in {"types", "lint", "security"} : checks[n] = OwnOutcome(n)

\* lint and security, started last, are back while syntax and types still run
C15_Witness ==
    /\ pc = "gather"
    /\ out["lint"].tag = "ret" /\ out["security"].tag = "ret"
    /\ {"syntax", "types"} \subseteq running
    /\ called = {"syntax", "types", "lint", "security"}

(***************************************************************************)
(* Cancellation of the task that runs execute.  execute has no handler for *)
(* asyncio.CancelledError, which `except Exception` does not match: the    *)
(* exception leaves every check that is suspended at its await, and then   *)
(* execute.  An invocation runs in a worker thread of asyncio.to_thread,   *)
(* which cancellation does not reach: it goes on until the tool exits or   *)
(* the timeout of subprocess.run ends it, and nothing reads what it gives. *)
(***************************************************************************)
Cancel ==
    /\ pc \in {"gather", "tests", "patterns"}
    /\ pc' = "cancelled"
    /\ out' = [n \in CheckNames |->
                 IF n \in called /\ out[n].tag = "none" THEN Raise("CancelledError") ELSE out[n]]
    /\ UNCHANGED <<input, again, quick, running, called, invoked, syn, beh, answer, checks, result>>

\* after the cancellation, an invocation left in its thread ends on its own
ThreadExit ==
    /\ pc = "cancelled"
    /\ \E n \in running : running' = running \ {n}
    /\ UNCHANGED <<input, again, quick, pc, called, invoked, out, syn, beh, answer, checks, result>>

NextCancel ==
    \/ Next
    \/ Cancel
    \/ ThreadExit

SpecCancel == Init /\ [][NextCancel]_vars

\* C16 as stated: once execute is cancelled, no tool invocation is still
\* running, and every check that was called has given back an outcome, a
\* failed one with a 'timeout' detail where its invocation was cut short.
C16_CancelStopsAndReports ==
    pc = "cancelled" =>
        /\ running = {}
        /\ \A n \in called :
              /\ out[n].tag = "ret"
              /\ (invoked[n] > 0 /\ n # "patterns" /\ beh[n].kind = "none") =>
                    ~out[n].val.passed /\ Contains(out[n].val.details, "timeout")

(***************************************************************************)
(* Progress.  The event loop runs every step of execute that is ready, and *)
(* subprocess.run is called with a timeout, so an invocation completes, if *)
(* only by TimeoutExpired.  The request to the reviewer is awaited without *)
(* a timeout (lines 478-481): nothing in the code makes it complete.       *)
(***************************************************************************)
Scheduled ==
    \/ Gather
    \/ SyntaxFileDone
    \/ TypesDone
    \/ LintDone
    \/ SecurityDone
    \/ GatherDone
    \/ SkipDependents
    \/ StartTests
    \/ TestsDone
    \/ StartPatterns
    \/ Aggregate

SpecLive == Init /\ [][Next]_vars /\ WF_vars(Scheduled)

\* the same, with a reviewer that always answers or fails in finite time
SpecLiveAnswered == Init /\ [][Next]_vars /\ WF_vars(Scheduled) /\ WF_vars(PatternsDone)

\* all six outcomes, status, recommendation and overall_confidence are set
Populated ==
    /\ DOMAIN result.checks = CheckNames
    /\ result.status \in {"PASS", "WARN", "FAIL"}
    /\ result.recommendation \in {"PROCEED", "RETRY", "ESCALATE"}
    /\ result.overall_confidence.den = 10
    /\ result.overall_confidence.num \in 0..10

\* C17 as stated: every call of execute eventually returns a fully populated
\* VerificationResult, whatever the tools and the reviewer do, a reviewer that
\* never answers included.
C17_EventuallyReturns == <>(Returned /\ Populated)

(***************************************************************************)
(* errors and warnings.                                                    *)
(***************************************************************************)
\* the entry '<name>: <details>' of a failed check of the result, as a list of
\* one entry; the empty list for a passed check
EntryOf(n) ==
    IF Passed(n) THEN <<>> ELSE << <<n, ": ">> \o result.checks[n].details >>

\* C18: errors is the list of '<name>: <details>' of the failed checks among
\* syntax, types, in that order; warnings is that list for lint, security,
\* tests, patterns, in that order; a passed check has no entry.
C18_ErrorsAndWarnings ==
    Returned =>
        /\ result.errors = EntryOf("syntax") \o EntryOf("types")
        /\ result.warnings =
              EntryOf("lint") \o EntryOf("security") \o EntryOf("tests") \o EntryOf("patterns")

\* only lint fails: one 'lint: ...' warning, no error
C18_Witness ==
    /\ Returned
    /\ \A n \in CheckNames : Passed(n) <=> n # "lint"
    /\ invoked["lint"] = 1 /\ beh["lint"].out = "issues"
    /\ Len(result.warnings) = 1 /\ result.warnings[1][1] = "lint"
    /\ result.errors = <<>>
    /\ Verdict = <<"WARN", "PROCEED">>

(***************************************************************************)
(* One call of verify_quick: lines 500-517.                                *)
(***************************************************************************)
\* f"{r.name}: {r.details}" for r in results if not r.passed
RECURSIVE QuickEntries(_)
QuickEntries(results) ==
    IF results = <<>> THEN <<>>
    ELSE (IF ~Head(results).passed
          THEN << <<Head(results).name, ": ">> \o Head(results).details >>
          ELSE <<>>) \o QuickEntries(Tail(results))

\* sum(r.duration_ms for r in results)
RECURSIVE SumDurations(_)
SumDurations(results) ==
    IF results = <<>> THEN 0
    ELSE Head(results).duration_ms + SumDurations(Tail(results))

\* mutant: one passing check is enough
verify_quickAny(results) ==
    LET details == JoinText(QuickEntries(results), <<"; ">>)
    IN  CheckResult("quick",
                    \E i \in 1..Len(results) : results[i].passed,
                    IF details # <<>> THEN details ELSE <<"All quick checks passed">>,
                    SumDurations(results))

\* lines 509-517, from the results of the gather
verify_quick(results) ==
    LET details == JoinText(QuickEntries(results), <<"; ">>)
    IN  CheckResult("quick",
                    \A i \in 1..Len(results) : results[i].passed,
                    IF details # <<>> THEN details ELSE <<"All quick checks passed">>,
                    SumDurations(results))

\* mutant: the quick mode also starts the type checker
QuickGatherWithTypes ==
    /\ pc = "start"
    /\ LET s == SyntaxAdvance(0, <<>>, 0)
           o == [n \in CheckNames |->
                    IF n = "syntax" THEN s.out
                    ELSE IF n \in {"types", "lint"} THEN BeforeTool(n, files_modified)
                    ELSE None]
       IN  /\ out' = o
           /\ syn' = s.syn
           /\ invoked' = [n \in CheckNames |->
                            IF n \in {"syntax", "types", "lint"} /\ o[n].tag = "none" THEN 1 ELSE 0]
           /\ running' = {n \in {"syntax", "types", "lint"} : o[n].tag = "none"}
    /\ called' = {"syntax", "types", "lint"}
    /\ pc' = "gather"
    /\ UNCHANGED <<input, again, quick, beh, answer, checks, result>>

\* asyncio.gather(self._check_syntax(files), self._check_lint(files)): the two
\* coroutines run, in order, up to their first await or their return
QuickGather ==
    /\ pc = "start"
    /\ LET s == SyntaxAdvance(0, <<>>, 0)
           o == [n \in CheckNames |->
                    IF n = "syntax" THEN s.out
                    ELSE IF n = "lint" THEN BeforeTool(n, files_modified)
                    ELSE None]
       IN  /\ out' = o
           /\ syn' = s.syn
           /\ invoked' = [n \in CheckNames |->
                            IF n \in {"syntax", "lint"} /\ o[n].tag = "none" THEN 1 ELSE 0]
           /\ running' = {n \in {"syntax", "lint"} : o[n].tag = "none"}
    /\ called' = {"syntax", "lint"}
    /\ pc' = "gather"
    /\ UNCHANGED <<input, again, quick, beh, answer, checks, result>>

\* the gather has both results: an exception of a check leaves verify_quick
\* (no return_exceptions here), else the quick outcome is built and returned
QuickDone ==
    /\ pc = "gather"
    /\ out["syntax"].tag # "none" /\ out["lint"].tag # "none"
    /\ IF out["syntax"].tag = "raise" \/ out["lint"].tag = "raise"
       THEN /\ pc' = "raised"
            /\ UNCHANGED quick
       ELSE /\ quick' = Ret(verify_quick(<<out["syntax"].val, out["lint"].val>>))
            /\ pc' = "quick done"
    /\ UNCHANGED <<input, again, running, called, invoked, out, syn, beh, answer, checks, result>>

NextQuick ==
    \/ QuickGather
    \/ SyntaxFileDone
    \/ LintDone
    \/ QuickDone

SpecQuick == Init /\ [][NextQuick]_vars

QuickReturned == pc = "quick done"

\* C19: in a call of verify_quick, _check_types, _check_security, _run_tests
\* and _check_patterns are never called and mypy, bandit, pytest and the
\* reviewer are never invoked; the only tools invoked are py_compile and ruff.
C19_QuickRunsSyntaxAndLintOnly ==
    /\ called \subseteq {"syntax", "lint"}
    /\ running \subseteq {"syntax", "lint"}
    /\ \A n \in {"types", "security", "tests", "patterns"} : invoked[n] = 0
    /\ \A n \in {"types", "security", "tests"} : beh[n] = NoBehaviour
    /\ answer = NoAnswer

C19_Witness ==
    /\ QuickReturned
    /\ invoked["syntax"] = 1 /\ invoked["lint"] = 1
    /\ beh["syntax"].kind = "exit" /\ beh["lint"].kind = "exit"

\* C20: verify_quick returns one outcome named 'quick': passed is the AND of
\* the syntax and lint outcomes, duration_ms is the sum of their durations,
\* and details is '<name>: <details>' of the failing ones, joined in the order
\* syntax, lint, or 'All quick checks passed' when both passed.
C20_QuickOutcome ==
    QuickReturned =>
        LET s == out["syntax"].val
            l == out["lint"].val
            q == quick.val
        IN  /\ quick.tag = "ret"
            /\ q.name = "quick"
            /\ q.passed <=> (s.passed /\ l.passed)
            /\ q.duration_ms = s.duration_ms + l.duration_ms
            /\ q.details =
                  (IF s.passed /\ l.passed THEN <<"All quick checks passed">>
                   ELSE IF l.passed THEN <<"syntax", ": ">> \o s.details
                   ELSE IF s.passed THEN <<"lint", ": ">> \o l.details
                   ELSE <<"syntax", ": ">> \o s.details \o <<"; ">> \o <<"lint", ": ">> \o l.details)

C20_Witness ==
    /\ QuickReturned
    /\ ~out["syntax"].val.passed /\ ~out["lint"].val.passed
    /\ beh["lint"].exc = "TimeoutExpired"
    /\ quick.val.duration_ms = out["syntax"].val.duration_ms + LintTimeoutMs

(***************************************************************************)
(* Files that do not exist.                                                *)
(***************************************************************************)
\* files_modified names at least one .py path, and none of them exists
AllSourcesMissing ==
    /\ \E i \in 1..Len(files_modified) : EndsWithPy(files_modified[i])
    /\ \A i \in 1..Len(files_modified) :
          EndsWithPy(files_modified[i]) => ~Exists(files_modified[i])

\* C24: a .py path that does not exist is skipped: no py_compile invocation
\* is made for it and no syntax error entry names it; when none of the listed
\* .py files exists, syntax passes and types, lint and security return passed
\* with 'No files to check' without invoking their tool.
C24_MissingFilesAreSkipped ==
    /\ \A k \in 1..Len(syn.errors) : Exists(syn.errors[k][1])
    /\ AllSourcesMissing =>
          /\ \A n \in {"syntax", "types", "lint", "security"} :
                /\ invoked[n] = 0
                /\ out[n].tag = "ret" => out[n].val.passed
          /\ \A n \in {"types", "lint", "security"} :
                out[n].tag = "ret" => out[n].val.details = <<"No files to check">>

C24_Witness ==
    /\ Returned
    /\ files_modified = <<"src/gone.py">>
    /\ Passed("syntax") /\ Passed("types") /\ Passed("lint") /\ Passed("security")
    /\ result.status = "PASS"

(***************************************************************************)
(* The security outcome of a scanner that ran to completion.               *)
(***************************************************************************)
\* bandit exited, with what out["security"] was computed from
ScannerExited == invoked["security"] > 0 /\ out["security"].tag = "ret" /\ beh["security"].kind = "exit"

\* details mentions 'n high'
MentionsHigh(details, n) ==
    \E k \in 1..(Len(details) - 1) : details[k] = ToString(n) /\ details[k + 1] = " high"

\* C25 as stated: exit 0 passes; a non-zero exit passes iff the report holds
\* no HIGH finding, fails with 'n high' in details for n >= 1 HIGH findings,
\* and fails with the 'Failed to parse' detail for every output that is not the
\* structured report.
C25_SecurityByHighFindings ==
    ScannerExited =>
        LET b == beh["security"]
            o == out["security"].val
        IN  /\ b.rc = 0 => o.passed
            /\ (b.rc # 0 /\ b.out \in {"report", "null issue_text"}) =>
                  /\ o.passed <=> b.high = 0
                  /\ b.high >= 1 => MentionsHigh(o.details, b.high)
            /\ (b.rc # 0 /\ b.out \in {"not json", "not an object"}) =>
                  /\ ~o.passed
                  /\ o.details = <<"Failed to parse bandit output">>

\* C25 amended: exit 0 passes; a non-zero exit with a well-formed report
\* passes iff it holds no HIGH finding and fails with 'n high' in details for
\* n >= 1; output that is no JSON fails with 'Failed to parse bandit output';
\* JSON that is not the report's shape (no object, a HIGH finding whose
\* issue_text is null) fails with the text of the exception as details.
C25_SecurityByHighFindingsWellFormed ==
    ScannerExited =>
        LET b == beh["security"]
            o == out["security"].val
        IN  /\ b.rc = 0 => o.passed
            /\ (b.rc # 0 /\ b.out = "report") =>
                  /\ o.passed <=> b.high = 0
                  /\ b.high >= 1 => MentionsHigh(o.details, b.high)
            /\ (b.rc # 0 /\ b.out = "not json") =>
                  ~o.passed /\ o.details = <<"Failed to parse bandit output">>
            /\ (b.rc # 0 /\ b.out = "not an object") =>
                  ~o.passed /\ o.details = StrExc("AttributeError")
            /\ (b.rc # 0 /\ b.out = "null issue_text") =>
                  ~o.passed /\ o.details = StrExc("TypeError")

\* a non-zero exit with MEDIUM findings only: passed, and noted
C25_Witness ==
    /\ Returned
    /\ beh["security"] = Report(0, 1)
    /\ Passed("security")
    /\ result.checks["security"].details[1] = "1"

(***************************************************************************)
(* The three summaries of a result.                                        *)
(***************************************************************************)
\* C29: when the syntax check failed, overall_confidence is at most 5 / 10 and
\* warnings holds 'tests: Skipped due to syntax errors' and 'patterns: Skipped
\* due to syntax errors'.
C29_SkippedCountAsFailed ==
    (Returned /\ ~Passed("syntax")) =>
        /\ 10 * result.overall_confidence.num <= 5 * result.overall_confidence.den
        /\ \A n \in {"tests", "patterns"} :
              \E k \in 1..Len(result.warnings) :
                  result.warnings[k] = <<n, ": ", "Skipped due to syntax errors">>

C29_Witness ==
    /\ Returned
    /\ ~Passed("syntax")
    /\ Passed("types") /\ Passed("lint") /\ Passed("security")
    /\ result.overall_confidence.num = 5
    /\ Len(result.warnings) = 2

\* C30: status is PASS exactly when overall_confidence is 1.0 and exactly when
\* errors and warnings are both empty; FAIL implies overall_confidence <= 0.8;
\* ESCALATE occurs only with FAIL and empty errors.
C30_SummariesAgree ==
    Returned =>
        /\ result.status = "PASS" <=> ConfidenceIsOne
        /\ result.status = "PASS" <=> (result.errors = <<>> /\ result.warnings = <<>>)
        /\ result.status = "FAIL" =>
              10 * result.overall_confidence.num <= 8 * result.overall_confidence.den
        /\ result.recommendation = "ESCALATE" =>
              result.status = "FAIL" /\ result.errors = <<>>

C30_Witness ==
    /\ Returned
    /\ Verdict = <<"FAIL", "ESCALATE">>
    /\ result.overall_confidence.num = 8
    /\ result.errors = <<>>

(***************************************************************************)
(* The checks in flight.                                                   *)
(***************************************************************************)
\* the checks that were called and have not given back
InFlight == {n \in CheckNames : n \in called /\ out[n].tag = "none"}

\* the checks whose outcome, tool behaviour or loop state a step changes
Touched ==
    {n \in CheckNames : out'[n] # out[n]}
    \cup {n \in DOMAIN beh : beh'[n] # beh[n]}
    \cup (IF syn' # syn THEN {"syntax"} ELSE {})

\* C22: at most 4 checks are in flight, and only syntax, types, lint and
\* security are ever in flight together: while tests or patterns is in flight
\* it is the only one; and a step of one check in the fan-out changes the
\* outcome, tool behaviour and loop state of that check only.
C22_BoundedFanOut ==
    /\ [](/\ Cardinality(InFlight) <= 4
          /\ running \subseteq InFlight
          /\ \A n \in {"tests", "patterns"} : n \in InFlight => InFlight = {n})
    /\ [][(pc = "gather" /\ pc' = "gather") => Cardinality(Touched) <= 1]_vars

C22_Witness ==
    /\ pc = "gather"
    /\ Cardinality(InFlight) = 4
    /\ running = {"syntax", "types", "lint", "security"}

(***************************************************************************)
(* The reviewer's verdict.                                                 *)
(***************************************************************************)
\* the review stage came to its request and the reviewer did not fail it: no
\* exception out of the service and no answer of another shape
ReviewerDidNotFail ==
    /\ invoked["patterns"] > 0
    /\ out["patterns"].tag = "ret"
    /\ answer \notin ReviewerAnswers \ WellFormedAnswers

\* C28: when the review stage comes to its request and the reviewer does not
\* fail it, the patterns outcome carries the well-formed verdict of the
\* reviewer: passed is the reviewer's passed, and a verdict passed = false
\* is a 'patterns: ...' warning of the result; for the unified LLMClient as
\* for a client put in its place.
C28_ReviewerVerdictDecides ==
    ReviewerDidNotFail =>
        /\ answer \in WellFormedAnswers
        /\ out["patterns"].val.passed = (answer.passed = "true")
        /\ (Returned /\ answer.passed = "false") =>
               \E k \in DOMAIN result.warnings :
                   SubSeq(result.warnings[k], 1, 2) = <<"patterns", ": ">>

(***************************************************************************)
(* A direct call of _run_tests(files).                                     *)
(***************************************************************************)
InitTests ==
    /\ files_modified \in SeqsUpTo(TestPaths, MaxTestFiles)
    /\ client = "LLMClient"
    /\ pc = "start"
    /\ called = {}
    /\ invoked = [n \in CheckNames |-> 0]
    /\ out = [n \in CheckNames |-> None]
    /\ syn = [i |-> 0, errors |-> <<>>, timeouts |-> 0]
    /\ beh = [n \in CheckNames \ {"patterns"} |-> NoBehaviour]
    /\ answer = NoAnswer
    /\ checks = <<>>
    /\ result = NoResult
    /\ running = {}
    /\ quick = None
    /\ again = FALSE

\* lines 376-404: the targets are looked for; pytest is invoked with them, or
\* the call returns at once
TestsCall ==
    /\ pc = "start"
    /\ called' = {"tests"}
    /\ LET r == BeforeTests(files_modified) IN
         /\ out' = [out EXCEPT !["tests"] = r]
         /\ IF r.tag = "none"
            THEN /\ invoked' = [invoked EXCEPT !["tests"] = @ + 1]
                 /\ running' = {"tests"}
                 /\ pc' = "tests call"
            ELSE /\ pc' = "tests returned"
                 /\ UNCHANGED <<invoked, running>>
    /\ UNCHANGED <<input, again, quick, syn, beh, answer, checks, result>>

\* lines 406-432: pytest has ended and the call returns
TestsReturn ==
    /\ pc = "tests call"
    /\ \E b \in TestsBehaviours :
         /\ beh' = [beh EXCEPT !["tests"] = b]
         /\ out' = [out EXCEPT !["tests"] = run_tests(b, Elapsed)]
    /\ running' = {}
    /\ pc' = "tests returned"
    /\ UNCHANGED <<input, again, quick, called, invoked, syn, answer, checks, result>>

NextTests ==
    \/ TestsCall
    \/ TestsReturn

SpecTests == InitTests /\ [][NextTests]_vars

\* the files whose four candidate locations the loop probes
Probed(files) ==
    {files[k] : k \in {j \in DOMAIN files : EndsWithPy(files[j]) /\ ~StartsWithTest(files[j])}}

\* of the four candidates of f, in their order, the first that exists and no
\* other; nothing when none exists
FirstOfFour(f) ==
    LET c == TestCandidates(f)
        hits == {k \in DOMAIN c : Exists(c[k])}
    IN  IF hits = {} THEN <<>>
        ELSE <<c[CHOOSE k \in hits : \A j \in hits : k <= j]>>

\* the targets of the probed files, in the order of the files
RECURSIVE Targets(_)
Targets(files) ==
    IF files = <<>> THEN <<>>
    ELSE (IF Head(files) \in Probed(<<Head(files)>>) THEN FirstOfFour(Head(files)) ELSE <<>>)
         \o Targets(Tail(files))

\* C26: _run_tests takes, for each file it probes, only the first of the four
\* candidates (same directory, mirrored tests/ tree, flat tests/, module-local
\* tests/) that exists, and nothing for a file with no existing candidate;
\* with no target it returns passed 'No related tests found' without
\* invoking pytest; otherwise pytest is invoked exactly once, with exactly
\* the targets.
C26_TestDiscovery ==
    pc \in {"tests call", "tests returned"} =>
        /\ test_files(files_modified) = Targets(files_modified)
        /\ Len(test_files(files_modified)) <= Len(files_modified)
        /\ Targets(files_modified) = <<>> =>
               /\ out["tests"] = Ret(CheckResult("tests", TRUE, <<"No related tests found">>, 0))
               /\ invoked["tests"] = 0
               /\ beh["tests"] = NoBehaviour
        /\ Targets(files_modified) # <<>> => invoked["tests"] = 1

C26_Witness ==
    /\ pc = "tests returned"
    /\ files_modified = <<"pkg/c.py", "pkg/d.py">>
    /\ test_files(files_modified) = <<"pkg/test_c.py", "pkg/tests/test_d.py">>
    /\ invoked["tests"] = 1
    /\ out["tests"].val.passed

\* C27: a modified file whose file name begins with 'test_', in whatever
\* directory it lies, is not probed for a related test file and gives
\* _run_tests no target: a call with such files only invokes nothing.
C27_TestFilesAreNotProbed ==
    pc \in {"tests call", "tests returned"} =>
        /\ \A k \in DOMAIN files_modified :
               NameStartsWithTest(files_modified[k]) =>
                   files_modified[k] \notin Probed(files_modified)
        /\ (\A k \in DOMAIN files_modified : NameStartsWithTest(files_modified[k])) =>
               invoked["tests"] = 0

(***************************************************************************)
(* _check_syntax over several files, as verify_quick calls it.             *)
(***************************************************************************)
InitMany ==
    /\ files_modified \in SeqsUpTo(Paths, MaxSyntaxFiles)
    /\ client = "LLMClient"
    /\ pc = "start"
    /\ called = {}
    /\ invoked = [n \in CheckNames |-> 0]
    /\ out = [n \in CheckNames |-> None]
    /\ syn = [i |-> 0, errors |-> <<>>, timeouts |-> 0]
    /\ beh = [n \in CheckNames \ {"patterns"} |-> NoBehaviour]
    /\ answer = NoAnswer
    /\ checks = <<>>
    /\ result = NoResult
    /\ running = {}
    /\ quick = None
    /\ again = FALSE

SpecQuickMany == InitMany /\ [][NextQuick]_vars

\* the indices of the source files that exist, among the first n
ExistingUpTo(n) ==
    {k \in 1..n : k <= Len(python_files(files_modified)) /\ Exists(python_files(files_modified)[k])}

\* a step in which one invocation of py_compile ends
SyntaxInvocationEnds ==
    /\ "syntax" \in called
    /\ out["syntax"].tag = "none"
    /\ syn' # syn

\* what the step leaves: the entry of the file just validated, and the loop
\* going on to the next existing file or the return
SyntaxStepIsPerFile ==
    LET py == python_files(files_modified)
        f == py[syn.i]
        b == beh'["syntax"]
        n == Len(syn.errors)
        rest == {k \in (syn.i + 1)..Len(py) : Exists(py[k])}
        clean == b.kind = "exit" /\ b.rc = 0
    IN  /\ Exists(f)
        /\ SubSeq(syn'.errors, 1, n) = syn.errors
        /\ clean => syn'.errors = syn.errors
        /\ ~clean => /\ Len(syn'.errors) = n + 1
                      /\ syn'.errors[n + 1][1] = f
        /\ b.exc = "TimeoutExpired" => Contains(syn'.errors[n + 1], "timeout")
        /\ IF rest = {}
           THEN /\ out'["syntax"].tag = "ret"
                /\ out'["syntax"].val.passed = (syn'.errors = <<>>)
                /\ invoked'["syntax"] = invoked["syntax"]
           ELSE /\ out'["syntax"].tag = "none"
                /\ syn'.i = CHOOSE k \in rest : \A j \in rest : k <= j
                /\ invoked'["syntax"] = invoked["syntax"] + 1

\* C23: _check_syntax invokes py_compile once for every existing source file
\* of the list; after a file fails or times out the loop goes on with the
\* next existing file; the outcome is passed iff no file left an error entry;
\* and a timeout of one invocation leaves an entry for that file that holds
\* 'timeout', which reaches the details.
C23_SyntaxPerFile ==
    /\ [](/\ invoked["syntax"] = Cardinality(ExistingUpTo(syn.i))
          /\ (out["syntax"].tag = "ret" /\ python_files(files_modified) # <<>>) =>
                 /\ invoked["syntax"] = Cardinality(ExistingUpTo(Len(files_modified)))
                 /\ out["syntax"].val.passed = (syn.errors = <<>>)
                 /\ (syn.timeouts > 0) = Contains(out["syntax"].val.details, "timeout")
                 /\ syn.errors # <<>> =>
                        out["syntax"].val.details = JoinText(syn.errors, <<"; ">>))
    /\ [][SyntaxInvocationEnds => SyntaxStepIsPerFile]_vars

C23_Witness ==
    /\ out["syntax"].tag = "ret"
    /\ files_modified = <<"src/a.py", "src/b.py">>
    /\ invoked["syntax"] = 2
    /\ Len(syn.errors) = 2
    /\ syn.errors[1] = <<"src/a.py", ": ", "Syntax check ", "timeout">>
    /\ syn.errors[2][1] = "src/b.py"
    /\ ~out["syntax"].val.passed

(***************************************************************************)
(* Several calls of execute on one agent.                                  *)
(***************************************************************************)
\* the files the calls of one agent are given: one that is no source file,
\* one that is missing, one that exists and has a test
AgainPaths == {"README.md", "src/gone.py", "src/b.py"}

InitAgain ==
    /\ files_modified \in SeqsUpTo(AgainPaths, MaxFiles)
    /\ client \in {"LLMClient", "injected"}
    /\ pc = "start"
    /\ called = {}
    /\ invoked = [n \in CheckNames |-> 0]
    /\ out = [n \in CheckNames |-> None]
    /\ syn = [i |-> 0, errors |-> <<>>, timeouts |-> 0]
    /\ beh = [n \in CheckNames \ {"patterns"} |-> NoBehaviour]
    /\ answer = NoAnswer
    /\ checks = <<>>
    /\ result = NoResult
    /\ running = {}
    /\ quick = None
    /\ again = FALSE

\* execute has returned and is called again, lines 50-68: a new TaskResult,
\* the same agent (project_root, llm_client), new locals checks, errors and
\* warnings, nothing run or returned yet in this call.  What the earlier
\* _check_syntax left is made anew only by the next _check_syntax (line 163).
CallAgain ==
    /\ pc = "done"
    /\ again' = TRUE
    /\ files_modified' \in SeqsUpTo(AgainPaths, MaxFiles)
    /\ pc' = "start"
    /\ called' = {}
    /\ invoked' = [n \in CheckNames |-> 0]
    /\ out' = [n \in CheckNames |-> None]
    /\ beh' = [n \in CheckNames \ {"patterns"} |-> NoBehaviour]
    /\ answer' = NoAnswer
    /\ checks' = <<>>
    /\ result' = NoResult
    /\ running' = {}
    /\ UNCHANGED <<client, quick, syn>>

NextAgain ==
    \/ Next
    \/ CallAgain

SpecAgain == InitAgain /\ [][NextAgain]_vars

\* the outcome of check n as the input of this call, the tools' behaviour in
\* this call and the reviewer's answer in this call decide it
ThisCall(n) ==
    IF n = "syntax" THEN OwnSyntaxOutcome
    ELSE IF n \in {"types", "lint", "security"} THEN OwnOutcome(n)
    ELSE IF ~OwnSyntaxOutcome.passed THEN Skipped(n)
    ELSE IF n = "tests"
    THEN IF invoked[n] = 0 THEN BeforeTests(files_modified).val
         ELSE run_tests(beh[n], Elapsed).val
    ELSE IF BeforePatterns(files_modified).tag # "none" THEN BeforePatterns(files_modified).val
    ELSE IF chat_json_call(client).tag = "raise"
    THEN PatternsExcept(chat_json_call(client), Elapsed).val
    ELSE check_patterns(answer, Elapsed).val

\* a step by which a call leaves its start
CallStarts == pc = "start" /\ pc' # "start"

\* C21: the gate keeps no state between calls: a call starts its syntax loop
\* with an empty errors list, no timeouts and an empty checks dict whatever
\* an earlier call left, the errors of its syntax loop are never more than
\* its own invocations, and what it returns (status, recommendation,
\* overall_confidence, errors, warnings, checks) is what the input, the
\* tools' behaviour and the reviewer's answer of this call alone give.
C21_NoStateBetweenCalls ==
    /\ [](/\ pc # "start" =>
                /\ Len(syn.errors) <= invoked["syntax"]
                /\ syn.timeouts <= invoked["syntax"]
          /\ Returned => result = VerificationResult([n \in CheckNames |-> ThisCall(n)]))
    /\ [][CallStarts =>
             /\ syn'.errors = <<>> /\ syn'.timeouts = 0
             /\ checks = <<>> /\ result = NoResult
             /\ \A n \in CheckNames : invoked[n] = 0]_vars

C21_Witness ==
    /\ again
    /\ Returned
    /\ syn.errors = <<>>
    /\ result.status = "PASS"
    /\ result.errors = <<>>
    /\ invoked["syntax"] = 1

====
